---- MODULE Spec2Model ----
(***************************************************************************)
(* A model of tokio-debouncer (src/src/lib.rs): the Debouncer controller,  *)
(* its DebouncerState behind the mutex, the tokio Notify it signals, the   *)
(* ready() loop of every caller and the DebouncerGuard each caller gets.   *)
(*                                                                         *)
(* Time is the paused tokio clock in whole units.  Every critical section  *)
(* (the block that holds risky_lock()) is one atomic step; a ready() call  *)
(* is cut at its two await points and between its state check and the      *)
(* first poll of `notified`.  ready() returns its guard in the step whose  *)
(* locked check breaks out of the loop: nothing suspends in between.       *)
(* A ready() future exists, unpolled, from the call until its first poll  *)
(* and can be dropped there as at its await points.                        *)
(* trigger() is two steps: its locked block, and the notify_one it makes   *)
(* once the block has closed; other threads run in between.                *)
(***************************************************************************)
EXTENDS Integers, Sequences, FiniteSets, TLC

\* ---- bounds of the model ------------------------------------------------
NCalls == 2          \* concurrent ready() callers (tasks or select arms)
MaxTime == 4         \* the clock runs 0..MaxTime
MaxCooldown == 2     \* cooldowns 0..MaxCooldown are tried
NProducers == 1      \* threads that call trigger(), one call at a time each

CallIds == 1..NCalls
ProducerIds == 1..NProducers
Modes == {"Leading", "Trailing"}
NoTime == 0 - 1      \* "has not happened yet" for the observation variables
Overlapped == 0 - 2  \* lastIssue once ready() calls have run side by side

VARIABLES
    mode,        \* DebouncerInner.mode
    cooldown,    \* DebouncerInner.cooldown
    now,         \* tokio::time::Instant::now()
    triggered,   \* DebouncerState.triggered
    has_run,     \* DebouncerState.has_run
    last_run,    \* DebouncerState.last_run
    permit,      \* Notify: a stored notify_one permit
    waiters,     \* Notify: FIFO queue of registered Notified futures
    notified,    \* Notify: [c] the waiter c was handed a notification
    pc,          \* [c] position of the ready() call c: "idle", "created"
                 \* (the future exists and has not been polled), "check"
                 \* (inside a poll, about to take the lock), "toPark",
                 \* "parked", "sleeping", "holding" (the guard is out)
    tpc,         \* [p] position of producer p: "idle", or "notify" when its
                 \* trigger() has closed the locked block and has still to
                 \* call notify_one
    deadline,    \* [c] the instant c's sleep_until waits for
    completed,   \* [c] DebouncerGuard.completed of the guard c holds
    stale,       \* observation: [c] since c's guard was issued, the finalize
                 \* of another guard (or a direct finalize call) has acted
    fin,         \* observation: [c] finalize calls made for c's latest guard
    lastTrig,    \* observation: time of the most recent trigger() call
    lastFinal,   \* observation: time of the most recent finalize that acted
    cycleFin,    \* observation: finalizes that acted since triggered last rose
    lastIssue,   \* observation: time the most recent guard was returned, for
                 \* as long as no two ready() calls have overlapped
                 \* (Overlapped from then on)
    lock,        \* holder of the state mutex: 0 = free, c = ready() call c
    wake,        \* observation: the notify_one call of the operation that
                 \* produced this state: "none", "unlocked" (made after the
                 \* state lock was released) or "locked" (made holding it)
    ev           \* observation: the operation that produced this state
                 \* ("done"/"redone": first/repeated acknowledgement;
                 \* "drop"/"dropAcked": drop of an unacknowledged/acknowledged
                 \* guard)

state == <<triggered, has_run, last_run>>
notif == <<permit, waiters, notified>>
obs   == <<fin, lastTrig, lastFinal, cycleFin, lastIssue>>
vars  == <<mode, cooldown, now, triggered, has_run, last_run, permit, waiters,
           notified, pc, tpc, deadline, completed, stale, fin, lastTrig,
           lastFinal,
           cycleFin, lastIssue, lock, wake, ev>>

Ev(op, c) == [op |-> op, c |-> c]

\* ---- Debouncer::new ------------------------------------------------------
InitHasRun_AlwaysTrue(m) == TRUE

InitHasRun(m) == IF m = "Leading" THEN FALSE ELSE TRUE

Init ==
    /\ mode \in Modes
    /\ cooldown \in 0..MaxCooldown
    /\ now = 0
    /\ triggered = FALSE
    /\ has_run = InitHasRun(mode)
    /\ last_run = 0
    /\ permit = FALSE
    /\ waiters = <<>>
    /\ notified = [c \in CallIds |-> FALSE]
    /\ pc = [c \in CallIds |-> "idle"]
    /\ tpc = [p \in ProducerIds |-> "idle"]
    /\ deadline = [c \in CallIds |-> 0]
    /\ completed = [c \in CallIds |-> FALSE]
    /\ stale = [c \in CallIds |-> FALSE]
    /\ fin = [c \in CallIds |-> 0]
    /\ lastTrig = NoTime
    /\ lastFinal = NoTime
    /\ cycleFin = 0
    /\ lastIssue = NoTime
    /\ lock = 0
    /\ wake = "none"
    /\ ev = Ev("new", 0)

\* ---- tokio::sync::Notify -------------------------------------------------
\* notify_one(): hand the notification to the oldest registered waiter, or
\* store one permit when nobody is registered.
NotifyOne ==
    IF waiters # <<>>
    THEN /\ notified' = [notified EXCEPT ![Head(waiters)] = TRUE]
         /\ waiters' = Tail(waiters)
         /\ permit' = permit
    ELSE /\ permit' = TRUE
         /\ UNCHANGED <<waiters, notified>>

RemoveWaiter(q, c) == SelectSeq(q, LAMBDA x : x # c)

\* ---- the state mutex -----------------------------------------------------
\* risky_lock() ... end of scope / drop(state): the step runs with the mutex
\* free and leaves it free.
Locked == lock = 0 /\ lock' = 0
\* a step that neither takes the mutex nor calls notify_one
Quiet == lock' = lock /\ wake' = "none"


\* ---- DebouncerInner::finalize --------------------------------------------
\* The guards, other than c's, that are still unfinalized when a finalize
\* acts have seen their cycle finalized.
Staled(c) ==
    [d \in CallIds |->
        stale[d] \/ (d # c /\ pc[d] = "holding" /\ ~completed[d])]

\* Mutant: the `if state.triggered` test is missing.
finalize_unguarded(pending) ==
    /\ has_run' = TRUE
    /\ triggered' = pending
    /\ last_run' = now
    /\ NotifyOne
    /\ lastFinal' = now
    /\ cycleFin' = cycleFin + 1
    /\ wake' = "locked"

\* Mutant: last_run is not refreshed.
finalize_stale_last_run(pending) ==
    IF triggered
    THEN /\ has_run' = TRUE
         /\ triggered' = pending
         /\ last_run' = last_run
         /\ NotifyOne
         /\ lastFinal' = now
         /\ cycleFin' = cycleFin + 1
         /\ wake' = "locked"
    ELSE /\ UNCHANGED <<state, notif, lastFinal, cycleFin>>
         /\ wake' = "none"

\* Mutant: the cycle is re-armed whatever `pending` says.
finalize_rearms(pending) ==
    IF triggered
    THEN /\ has_run' = TRUE
         /\ triggered' = TRUE
         /\ last_run' = now
         /\ NotifyOne
         /\ lastFinal' = now
         /\ cycleFin' = cycleFin + 1
         /\ wake' = "locked"
    ELSE /\ UNCHANGED <<state, notif, lastFinal, cycleFin>>
         /\ wake' = "none"

finalize(pending) ==
    IF triggered
    THEN /\ has_run' = TRUE
         /\ triggered' = pending
         /\ last_run' = now
         /\ NotifyOne
         /\ lastFinal' = now
         /\ cycleFin' = cycleFin + 1
         /\ wake' = "locked"
    ELSE /\ UNCHANGED <<state, notif, lastFinal, cycleFin>>
         /\ wake' = "none"

\* ---- Debouncer::is_triggered ---------------------------------------------
is_triggered == triggered

\* ---- Debouncer::trigger --------------------------------------------------
\* Mutant: a trigger that finds the batch pending returns before it moves
\* last_run.
trigger_no_reschedule(p) ==
    /\ tpc[p] = "idle"
    /\ Locked
    /\ IF triggered
       THEN UNCHANGED <<state, cycleFin, tpc>>
       ELSE /\ last_run' = IF mode = "Trailing" THEN now ELSE last_run
            /\ triggered' = TRUE
            /\ cycleFin' = 0
            /\ tpc' = [tpc EXCEPT ![p] = "notify"]
            /\ UNCHANGED has_run
    /\ wake' = "none"
    /\ lastTrig' = now
    /\ ev' = Ev(IF triggered THEN "retrigger" ELSE "trigger", 0)
    /\ UNCHANGED <<mode, cooldown, stale, now, notif, pc, deadline, completed, fin,
                   lastFinal, lastIssue>>

\* Mutant: last_run is moved in Leading mode too.
trigger_moves_leading(p) ==
    /\ tpc[p] = "idle"
    /\ Locked
    /\ last_run' = now
    /\ IF triggered
       THEN UNCHANGED <<triggered, cycleFin, tpc>>
       ELSE /\ triggered' = TRUE
            /\ cycleFin' = 0
            /\ tpc' = [tpc EXCEPT ![p] = "notify"]
    /\ wake' = "none"
    /\ lastTrig' = now
    /\ ev' = Ev(IF triggered THEN "retrigger" ELSE "trigger", 0)
    /\ UNCHANGED <<mode, cooldown, stale, now, has_run, notif, pc, deadline, completed,
                   fin, lastFinal, lastIssue>>

\* Mutant: the flag is set but the call returns without its notify_one.
trigger_no_wake(p) ==
    /\ tpc[p] = "idle"
    /\ Locked
    /\ last_run' = IF mode = "Trailing" THEN now ELSE last_run
    /\ triggered' = TRUE
    /\ cycleFin' = IF triggered THEN cycleFin ELSE 0
    /\ UNCHANGED tpc
    /\ wake' = "none"
    /\ lastTrig' = now
    /\ ev' = Ev(IF triggered THEN "retrigger" ELSE "trigger", 0)
    /\ UNCHANGED <<mode, cooldown, stale, now, has_run, notif, pc, deadline, completed,
                   fin, lastFinal, lastIssue>>

\* Mutant: the early return is missing, every call goes on to notify.
trigger_wakes_every_time(p) ==
    /\ tpc[p] = "idle"
    /\ Locked
    /\ last_run' = IF mode = "Trailing" THEN now ELSE last_run
    /\ triggered' = TRUE
    /\ cycleFin' = IF triggered THEN cycleFin ELSE 0
    /\ tpc' = [tpc EXCEPT ![p] = "notify"]
    /\ wake' = "none"
    /\ lastTrig' = now
    /\ ev' = Ev(IF triggered THEN "retrigger" ELSE "trigger", 0)
    /\ UNCHANGED <<mode, cooldown, stale, now, has_run, notif, pc, deadline, completed,
                   fin, lastFinal, lastIssue>>

\* The locked block of trigger(): in Trailing mode move last_run; return if
\* the batch is already pending; otherwise set the flag and leave the block
\* with the notify_one still to make.
trigger(p) ==
    /\ tpc[p] = "idle"
    /\ Locked
    /\ last_run' = IF mode = "Trailing" THEN now ELSE last_run
    /\ IF triggered
       THEN UNCHANGED <<triggered, cycleFin, tpc>>
       ELSE /\ triggered' = TRUE
            /\ cycleFin' = 0
            /\ tpc' = [tpc EXCEPT ![p] = "notify"]
    /\ wake' = "none"
    /\ lastTrig' = now
    /\ ev' = Ev(IF triggered THEN "retrigger" ELSE "trigger", 0)
    /\ UNCHANGED <<mode, cooldown, stale, now, has_run, notif, pc, deadline, completed,
                   fin, lastFinal, lastIssue>>

\* self.inner.notifier.notify_one(), after the locked block has closed: the
\* call neither takes nor needs the mutex.
trigger_notify(p) ==
    /\ tpc[p] = "notify"
    /\ NotifyOne
    /\ tpc' = [tpc EXCEPT ![p] = "idle"]
    /\ lock' = lock
    /\ wake' = "unlocked"
    /\ ev' = Ev("notify", 0)
    /\ UNCHANGED <<mode, cooldown, stale, now, state, pc, deadline, completed, obs>>

\* ---- Debouncer::ready ----------------------------------------------------
\* Mutant: Leading mode does not let the first cycle through.
IsReady_no_first_fire ==
    now >= last_run + cooldown

\* The match on self.inner.mode: may the loop break now?
IsReady ==
    IF mode = "Leading"
    THEN (~has_run) \/ now >= last_run + cooldown
    ELSE now >= last_run + cooldown

\* ready() is called: the future exists, it has not been polled.
ReadyStart(c) ==
    /\ pc[c] = "idle"
    /\ pc' = [pc EXCEPT ![c] = "created"]
    /\ lastIssue' = IF \E d \in CallIds \ {c} : pc[d] # "idle"
                    THEN Overlapped ELSE lastIssue
    /\ stale' = [stale EXCEPT ![c] = FALSE]
    /\ ev' = Ev("start", c)
    /\ Quiet
    /\ UNCHANGED <<mode, cooldown, tpc, now, state, notif, deadline, completed, fin,
                   lastTrig, lastFinal, cycleFin>>

\* Mutant: ready() consumes the flag when it hands out the guard.
ReadyCheck_clears_flag(c) ==
    /\ pc[c] \in {"created", "check"}
    /\ Locked
    /\ wake' = "none"
    /\ IF ~triggered
       THEN /\ pc' = [pc EXCEPT ![c] = "toPark"]
            /\ ev' = Ev("unready", c)
            /\ UNCHANGED <<state, deadline, completed, fin, lastIssue>>
       ELSE IF IsReady
       THEN /\ pc' = [pc EXCEPT ![c] = "holding"]
            /\ completed' = [completed EXCEPT ![c] = FALSE]
            /\ fin' = [fin EXCEPT ![c] = 0]
            /\ ev' = Ev("issue", c)
            /\ lastIssue' = IF lastIssue = Overlapped THEN Overlapped ELSE now
            /\ triggered' = FALSE
            /\ UNCHANGED <<has_run, last_run, deadline>>
       ELSE /\ pc' = [pc EXCEPT ![c] = "sleeping"]
            /\ deadline' = [deadline EXCEPT ![c] = last_run + cooldown]
            /\ ev' = Ev("sleep", c)
            /\ UNCHANGED <<state, completed, fin, lastIssue>>
    /\ UNCHANGED <<mode, cooldown, stale, tpc, now, notif, lastTrig, lastFinal, cycleFin>>

\* Mutant: the drop(state) before each await is missing, the MutexGuard
\* lives across the suspension.
ReadyCheck_holds_lock(c) ==
    /\ pc[c] \in {"created", "check"}
    /\ lock = 0
    /\ wake' = "none"
    /\ IF ~triggered
       THEN /\ pc' = [pc EXCEPT ![c] = "toPark"]
            /\ lock' = c
            /\ ev' = Ev("unready", c)
            /\ UNCHANGED <<deadline, completed, fin, lastIssue>>
       ELSE IF IsReady
       THEN /\ pc' = [pc EXCEPT ![c] = "holding"]
            /\ lock' = 0
            /\ completed' = [completed EXCEPT ![c] = FALSE]
            /\ fin' = [fin EXCEPT ![c] = 0]
            /\ ev' = Ev("issue", c)
            /\ lastIssue' = IF lastIssue = Overlapped THEN Overlapped ELSE now
            /\ UNCHANGED deadline
       ELSE /\ pc' = [pc EXCEPT ![c] = "sleeping"]
            /\ lock' = c
            /\ deadline' = [deadline EXCEPT ![c] = last_run + cooldown]
            /\ ev' = Ev("sleep", c)
            /\ UNCHANGED <<completed, fin, lastIssue>>
    /\ UNCHANGED <<mode, cooldown, stale, tpc, now, state, notif, lastTrig, lastFinal,
                   cycleFin>>

\* One pass of the loop body under the lock: park, sleep, or break and
\* return DebouncerGuard::new.
ReadyCheck(c) ==
    /\ pc[c] \in {"created", "check"}
    /\ Locked
    /\ wake' = "none"
    /\ IF ~triggered
       THEN /\ pc' = [pc EXCEPT ![c] = "toPark"]
            /\ ev' = Ev("unready", c)
            /\ UNCHANGED <<deadline, completed, fin, lastIssue>>
       ELSE IF IsReady
       THEN /\ pc' = [pc EXCEPT ![c] = "holding"]
            /\ completed' = [completed EXCEPT ![c] = FALSE]
            /\ fin' = [fin EXCEPT ![c] = 0]
            /\ ev' = Ev("issue", c)
            /\ lastIssue' = IF lastIssue = Overlapped THEN Overlapped ELSE now
            /\ UNCHANGED deadline
       ELSE /\ pc' = [pc EXCEPT ![c] = "sleeping"]
            /\ deadline' = [deadline EXCEPT ![c] = last_run + cooldown]
            /\ ev' = Ev("sleep", c)
            /\ UNCHANGED <<completed, fin, lastIssue>>
    /\ UNCHANGED <<mode, cooldown, stale, tpc, now, state, notif, lastTrig, lastFinal,
                   cycleFin>>

\* notified.await, first poll: take a stored permit, or register and park.
ReadyPark(c) ==
    /\ pc[c] = "toPark"
    /\ IF permit
       THEN /\ permit' = FALSE
            /\ pc' = [pc EXCEPT ![c] = "check"]
            /\ UNCHANGED <<waiters, notified>>
       ELSE /\ waiters' = Append(waiters, c)
            /\ pc' = [pc EXCEPT ![c] = "parked"]
            /\ UNCHANGED <<permit, notified>>
    /\ ev' = Ev("park", c)
    /\ Quiet
    /\ UNCHANGED <<mode, cooldown, stale, tpc, now, state, deadline, completed, obs>>

\* notified.await completes: the woken task is polled and loops.
ReadyWake(c) ==
    /\ pc[c] = "parked"
    /\ notified[c]
    /\ notified' = [notified EXCEPT ![c] = FALSE]
    /\ pc' = [pc EXCEPT ![c] = "check"]
    /\ ev' = Ev("wake", c)
    /\ Quiet
    /\ UNCHANGED <<mode, cooldown, stale, tpc, now, state, permit, waiters, deadline,
                   completed, obs>>

\* sleep_until(next_allowed) completes and the loop goes round.
ReadySleepDone(c) ==
    /\ pc[c] = "sleeping"
    /\ now >= deadline[c]
    /\ pc' = [pc EXCEPT ![c] = "check"]
    /\ deadline' = [deadline EXCEPT ![c] = 0]
    /\ ev' = Ev("slept", c)
    /\ Quiet
    /\ UNCHANGED <<mode, cooldown, stale, tpc, now, state, notif, completed, obs>>

\* The ready() future is dropped before its first poll or at one of its
\* await points (it lost a select!, its task was aborted, it was never
\* awaited).  Dropping a Notified that was handed a notify_one notification
\* it never consumed passes the notification on; dropping a registered one
\* unregisters it; an unpolled future holds nothing.
ReadyAbandon(c) ==
    /\ pc[c] \in {"created", "parked", "sleeping"}
    /\ IF pc[c] = "parked"
       THEN IF notified[c]
            THEN IF waiters # <<>>
                 THEN /\ notified' = [notified EXCEPT ![c] = FALSE,
                                                      ![Head(waiters)] = TRUE]
                      /\ waiters' = Tail(waiters)
                      /\ permit' = permit
                 ELSE /\ notified' = [notified EXCEPT ![c] = FALSE]
                      /\ permit' = TRUE
                      /\ waiters' = waiters
            ELSE /\ waiters' = RemoveWaiter(waiters, c)
                 /\ UNCHANGED <<permit, notified>>
       ELSE UNCHANGED notif
    /\ pc' = [pc EXCEPT ![c] = "idle"]
    /\ deadline' = [deadline EXCEPT ![c] = 0]
    /\ ev' = Ev("abandon", c)
    /\ Quiet
    /\ UNCHANGED <<mode, cooldown, stale, tpc, now, state, completed, obs>>

\* ---- DebouncerGuard ------------------------------------------------------
\* Explicit acknowledgement, as the tests call it (guard.done()).
done(c) ==
    /\ pc[c] = "holding"
    /\ IF ~completed[c]
       THEN /\ completed' = [completed EXCEPT ![c] = TRUE]
            /\ fin' = [fin EXCEPT ![c] = fin[c] + 1]
            /\ finalize(FALSE)
       ELSE /\ UNCHANGED <<completed, fin, state, notif, lastFinal, cycleFin>>
            /\ wake' = "none"
    /\ ev' = Ev(IF completed[c] THEN "redone" ELSE "done", c)
    /\ stale' = IF ~completed[c] /\ triggered THEN Staled(c) ELSE stale
    /\ Locked
    /\ UNCHANGED <<mode, cooldown, tpc, now, pc, deadline, lastTrig, lastIssue>>

\* Mutant: drop finalizes whatever `completed` says.
drop_ignores_completed(c) ==
    /\ pc[c] = "holding"
    /\ completed' = [completed EXCEPT ![c] = TRUE]
    /\ fin' = [fin EXCEPT ![c] = fin[c] + 1]
    /\ finalize(FALSE)
    /\ pc' = [pc EXCEPT ![c] = "idle"]
    /\ ev' = Ev(IF completed[c] THEN "dropAcked" ELSE "drop", c)
    /\ stale' = IF triggered THEN Staled(c) ELSE stale
    /\ Locked
    /\ UNCHANGED <<mode, cooldown, tpc, now, deadline, lastTrig, lastIssue>>

\* Mutant: the unacknowledged drop re-arms (finalize(true)).
drop_rearms(c) ==
    /\ pc[c] = "holding"
    /\ IF ~completed[c]
       THEN /\ completed' = [completed EXCEPT ![c] = TRUE]
            /\ fin' = [fin EXCEPT ![c] = fin[c] + 1]
            /\ finalize(TRUE)
       ELSE /\ UNCHANGED <<completed, fin, state, notif, lastFinal, cycleFin>>
            /\ wake' = "none"
    /\ pc' = [pc EXCEPT ![c] = "idle"]
    /\ ev' = Ev(IF completed[c] THEN "dropAcked" ELSE "drop", c)
    /\ stale' = IF ~completed[c] /\ triggered THEN Staled(c) ELSE stale
    /\ Locked
    /\ UNCHANGED <<mode, cooldown, tpc, now, deadline, lastTrig, lastIssue>>

\* Drop for DebouncerGuard: the guard goes out of scope, by the end of the
\* block, a panic, or the cancellation of the task that owns it.
drop(c) ==
    /\ pc[c] = "holding"
    /\ IF ~completed[c]
       THEN /\ completed' = [completed EXCEPT ![c] = TRUE]
            /\ fin' = [fin EXCEPT ![c] = fin[c] + 1]
            /\ finalize(FALSE)
       ELSE /\ UNCHANGED <<completed, fin, state, notif, lastFinal, cycleFin>>
            /\ wake' = "none"
    /\ pc' = [pc EXCEPT ![c] = "idle"]
    /\ ev' = Ev(IF completed[c] THEN "dropAcked" ELSE "drop", c)
    /\ stale' = IF ~completed[c] /\ triggered THEN Staled(c) ELSE stale
    /\ Locked
    /\ UNCHANGED <<mode, cooldown, tpc, now, deadline, lastTrig, lastIssue>>

\* ---- the clock -----------------------------------------------------------
Tick ==
    /\ now < MaxTime
    /\ now' = now + 1
    /\ ev' = Ev("tick", 0)
    /\ Quiet
    /\ UNCHANGED <<mode, cooldown, stale, tpc, state, notif, pc, deadline, completed, obs>>

Next ==
    \/ \E p \in ProducerIds : trigger(p)
    \/ \E p \in ProducerIds : trigger_notify(p)
    \/ Tick
    \/ \E c \in CallIds : ReadyStart(c)
    \/ \E c \in CallIds : ReadyCheck(c)
    \/ \E c \in CallIds : ReadyPark(c)
    \/ \E c \in CallIds : ReadyWake(c)
    \/ \E c \in CallIds : ReadySleepDone(c)
    \/ \E c \in CallIds : ReadyAbandon(c)
    \/ \E c \in CallIds : done(c)
    \/ \E c \in CallIds : drop(c)

Spec == Init /\ [][Next]_vars

\* The runtime polls every woken task, timers fire, the clock advances and
\* a thread inside trigger() runs on to its notify_one; nothing obliges
\* anyone to call trigger() or ready(), to give up a ready() or to let go of
\* a guard.
Fairness ==
    /\ WF_vars(Tick)
    /\ \A p \in ProducerIds : WF_vars(trigger_notify(p))
    /\ \A c \in CallIds : WF_vars(ReadyCheck(c))
    /\ \A c \in CallIds : WF_vars(ReadyPark(c))
    /\ \A c \in CallIds : WF_vars(ReadyWake(c))
    /\ \A c \in CallIds : WF_vars(ReadySleepDone(c))

FairSpec == Init /\ [][Next]_vars /\ Fairness

\* A single consumer: a ready() call starts only when no other call is in
\* progress and no guard is held.
SingleStart(c) ==
    /\ \A d \in CallIds \ {c} : pc[d] = "idle"
    /\ ReadyStart(c)

SingleNext ==
    \/ \E p \in ProducerIds : trigger(p)
    \/ \E p \in ProducerIds : trigger_notify(p)
    \/ Tick
    \/ \E c \in CallIds : SingleStart(c)
    \/ \E c \in CallIds : ReadyCheck(c)
    \/ \E c \in CallIds : ReadyPark(c)
    \/ \E c \in CallIds : ReadyWake(c)
    \/ \E c \in CallIds : ReadySleepDone(c)
    \/ \E c \in CallIds : ReadyAbandon(c)
    \/ \E c \in CallIds : done(c)
    \/ \E c \in CallIds : drop(c)

SingleSpec == Init /\ [][SingleNext]_vars

\* The operations src/src/lib.rs has: every step but the acknowledgement
\* done(), which the crate does not define.
CodeNext ==
    \/ \E p \in ProducerIds : trigger(p)
    \/ \E p \in ProducerIds : trigger_notify(p)
    \/ Tick
    \/ \E c \in CallIds : ReadyStart(c)
    \/ \E c \in CallIds : ReadyCheck(c)
    \/ \E c \in CallIds : ReadyPark(c)
    \/ \E c \in CallIds : ReadyWake(c)
    \/ \E c \in CallIds : ReadySleepDone(c)
    \/ \E c \in CallIds : ReadyAbandon(c)
    \/ \E c \in CallIds : drop(c)

CodeSpec == Init /\ [][CodeNext]_vars

\* One consumer, with the operations src/src/lib.rs has: it makes one
\* ready() call at a time and lets go of a guard by dropping it.
ConsumerNext ==
    \/ \E p \in ProducerIds : trigger(p)
    \/ \E p \in ProducerIds : trigger_notify(p)
    \/ Tick
    \/ \E c \in CallIds : SingleStart(c)
    \/ \E c \in CallIds : ReadyCheck(c)
    \/ \E c \in CallIds : ReadyPark(c)
    \/ \E c \in CallIds : ReadyWake(c)
    \/ \E c \in CallIds : ReadySleepDone(c)
    \/ \E c \in CallIds : ReadyAbandon(c)
    \/ \E c \in CallIds : drop(c)

\* The one consumer keeps consuming: whenever it is in no ready() call and
\* holds no guard it calls ready(), it awaits the calls it makes (a consumer
\* that keeps calling is polled again and again, even if it gives up calls
\* in between), and it drops every guard it holds.  No call that was given
\* up is ever obliged to start again beside another.
ConsumerFairness ==
    /\ Fairness
    /\ WF_vars(\E c \in CallIds : SingleStart(c))
    /\ \A c \in CallIds : SF_vars(ReadyCheck(c))
    /\ \A c \in CallIds : WF_vars(drop(c))

ConsumerFairSpec == Init /\ [][ConsumerNext]_vars /\ ConsumerFairness

\* finalize called on its own, with either argument, in the states a single
\* consumer reaches (the program itself only ever passes false).  At most
\* two such calls are made per rise of triggered.
FinalizeCall(pending) ==
    /\ cycleFin <= 1
    /\ Locked
    /\ finalize(pending)
    /\ stale' = IF triggered THEN Staled(0) ELSE stale
    /\ ev' = Ev(IF pending THEN "finalizeTrue" ELSE "finalizeFalse", 0)
    /\ UNCHANGED <<mode, cooldown, tpc, now, pc, deadline, completed, fin, lastTrig,
                   lastIssue>>

FinalizeNext ==
    \/ SingleNext
    \/ \E pending \in BOOLEAN : FinalizeCall(pending)

FinalizeSpec == Init /\ [][FinalizeNext]_vars

TypeOK ==
    /\ mode \in Modes
    /\ cooldown \in 0..MaxCooldown
    /\ now \in 0..MaxTime
    /\ triggered \in BOOLEAN
    /\ has_run \in BOOLEAN
    /\ last_run \in 0..MaxTime
    /\ permit \in BOOLEAN
    /\ pc \in [CallIds -> {"idle", "created", "check", "toPark", "parked", "sleeping",
                           "holding"}]
    /\ tpc \in [ProducerIds -> {"idle", "notify"}]
    /\ stale \in [CallIds -> BOOLEAN]
    /\ \A c \in CallIds : fin[c] \in 0..2


\* ---- vocabulary of the properties ----------------------------------------
InReady(c) == pc[c] \in {"created", "check", "toPark", "parked", "sleeping"}
Outstanding == {c \in CallIds : pc[c] = "holding" /\ ~completed[c]}
\* the step is the locked check of call c
CheckStep(c) ==
    /\ pc[c] \in {"created", "check"}
    /\ pc'[c] \in {"toPark", "sleeping", "holding"}
\* triggered rises only in trigger()
OnlyTriggerArms == (~triggered /\ triggered') => ev'.op = "trigger"

\* the cooldown window now open ends after the last instant of the clock:
\* a sleep_until for it cannot end within the model
PastHorizon == last_run + cooldown > MaxTime

\* exactly one wake is sent: the oldest registered waiter is handed the
\* notification, or, nobody being registered, one permit is stored
OneWake ==
    \/ /\ waiters # <<>>
       /\ waiters' = Tail(waiters)
       /\ notified' = [notified EXCEPT ![Head(waiters)] = TRUE]
       /\ permit' = permit
    \/ /\ waiters = <<>>
       /\ permit'
       /\ UNCHANGED <<waiters, notified>>

\* C1: no step of a ready() call (start, check, park, wake, end of sleep,
\* abandonment at an await point, return of the guard) changes triggered,
\* has_run or last_run.
C1_ReadyKeepsState ==
    [][(\E c \in CallIds : pc[c] # "holding" /\ pc'[c] # pc[c])
         => UNCHANGED state]_vars

\* a ready() call was abandoned while a batch was pending and a cycle had
\* already been finalized
C1_Witness ==
    ev.op = "abandon" /\ triggered /\ lastFinal # NoTime

\* C2 (as claimed): the drop of an unacknowledged guard leaves triggered
\* true and last_run at the drop time.
C2_DropRearms ==
    [][\A c \in CallIds :
         (pc[c] = "holding" /\ ~completed[c] /\ pc'[c] = "idle")
            => (triggered' /\ last_run' = now)]_vars

\* C3: the first acknowledgement of a guard leaves triggered false and the
\* guard completed; a repeated acknowledgement and the drop of an
\* acknowledged guard change neither the debounce state nor the notifier;
\* triggered becomes true again only by trigger().
C3_AckIdempotent ==
    [][/\ \A c \in CallIds :
            (pc[c] = "holding" /\ ~completed[c] /\ ev' = Ev("done", c))
               => (~triggered' /\ completed'[c] /\ fin'[c] = 1)
       /\ \A c \in CallIds :
            (pc[c] = "holding" /\ completed[c] /\ ev'.c = c)
               => UNCHANGED <<state, notif>>
       /\ OnlyTriggerArms]_vars

\* a guard was acknowledged a second time
C3_Witness ==
    ev.op = "redone" /\ completed[ev.c] /\ pc[ev.c] = "holding"

\* C4: the drop of a guard no method was called on leaves triggered false;
\* a guard is issued only while triggered is true, and triggered becomes
\* true only by trigger().
C4_DropCommits ==
    [][/\ \A c \in CallIds :
            (pc[c] = "holding" /\ ~completed[c] /\ pc'[c] = "idle")
               => ~triggered'
       /\ \A c \in CallIds : (CheckStep(c) /\ pc'[c] = "holding") => triggered
       /\ OnlyTriggerArms]_vars

\* an unacknowledged guard was dropped and its finalize acted
C4_Witness ==
    ev.op = "drop" /\ ~triggered /\ lastFinal = now /\ has_run

\* C5: finalize is called at most once for a guard; a held guard has had
\* one call exactly when it is completed; a guard that has been dropped has
\* had exactly one.
C5_FinalizeOnce ==
    /\ \A c \in CallIds : fin[c] <= 1
    /\ \A c \in CallIds :
         pc[c] = "holding" => fin[c] = (IF completed[c] THEN 1 ELSE 0)
    /\ ev.op \in {"drop", "dropAcked"} => fin[ev.c] = 1

\* an acknowledged guard was dropped
C5_Witness ==
    ev.op = "dropAcked" /\ fin[ev.c] = 1

C7_NoLostWakeup ==
    \A c \in CallIds :
        (triggered /\ InReady(c) /\ Outstanding = {} /\ ~PastHorizon)
        ~> (ev.op = "issue" \/ ev = Ev("abandon", c) \/ PastHorizon)

\* C8: in Trailing mode a guard is issued only when at least the cooldown
\* has passed since the most recent trigger() call (and so since
\* construction).
C8_TrailingWaitsFromLastTrigger ==
    (mode = "Trailing" /\ ev.op = "issue")
        => (lastTrig # NoTime /\ now >= lastTrig + cooldown /\ now >= cooldown)

\* a Trailing guard issued exactly one cooldown after a trigger made later
\* than the cooldown's first possible end
C8_Witness ==
    /\ mode = "Trailing" /\ ev.op = "issue"
    /\ cooldown > 0 /\ lastTrig > 0 /\ now = lastTrig + cooldown

\* C9: in Leading mode, once a finalize has acted at time T, a guard is
\* issued only at T + cooldown or later, and a locked check made while
\* triggered at T + cooldown or later issues the guard.
C9_LeadingCooldown ==
    [][\A c \in CallIds :
         (mode = "Leading" /\ lastFinal # NoTime /\ CheckStep(c))
            => /\ pc'[c] = "holding" => now >= lastFinal + cooldown
               /\ (triggered /\ now >= lastFinal + cooldown)
                     => pc'[c] = "holding"]_vars

\* a Leading guard issued exactly one cooldown after the previous finalize
C9_Witness ==
    /\ mode = "Leading" /\ ev.op = "issue"
    /\ lastFinal # NoTime /\ cooldown > 0 /\ now = lastFinal + cooldown

\* C10: in Leading mode, until the first finalize acts, has_run is false and
\* a locked check made while triggered issues the guard at once, whatever
\* the cooldown and the time since construction.
C10_LeadingFirstFire ==
    [][\A c \in CallIds :
         (mode = "Leading" /\ lastFinal = NoTime)
            => /\ ~has_run
               /\ (CheckStep(c) /\ triggered) => pc'[c] = "holding"]_vars

\* a first Leading guard issued after construction and before the cooldown
\* measured from construction has passed
C10_Witness ==
    /\ mode = "Leading" /\ ev.op = "issue" /\ lastFinal = NoTime
    /\ 0 < now /\ now < cooldown


\* C11: a trigger() that finds the batch pending opens no further cycle and
\* sends no wake (triggered, has_run, the notifier and the count of
\* finalizes of the cycle stay as they are); once a finalize has acted in a
\* cycle, triggered is false and no guard is issued until trigger() raises
\* it again.
C11_Coalescing ==
    /\ [](cycleFin >= 1 => (~triggered /\ ev.op # "issue"))
    /\ [][/\ ev'.op = "retrigger"
               => (triggered /\ triggered'
                     /\ UNCHANGED <<has_run, notif, cycleFin, tpc>>)
          /\ OnlyTriggerArms]_vars

\* a guard was finalized as handled after a further trigger() had come in
\* behind the one that opened its cycle
C11_Witness ==
    /\ ev.op = "drop" /\ lastFinal = now /\ ~triggered /\ cycleFin = 1
    /\ lastIssue >= 0 /\ lastTrig > lastIssue


\* C12 (checked under SingleSpec): a guard is returned to the single
\* consumer no earlier than the cooldown after the previous guard was
\* returned, in both modes.
C12_CooldownSpacing ==
    [][\A c \in CallIds :
         (CheckStep(c) /\ pc'[c] = "holding" /\ lastIssue >= 0)
            => now >= lastIssue + cooldown]_vars

\* a later guard returned exactly one cooldown after the previous one was
\* finalized
C12_Witness ==
    /\ ev.op = "issue" /\ lastFinal # NoTime /\ cooldown > 0
    /\ lastIssue = now /\ lastFinal + cooldown = now


\* C13 (as claimed, checked under ConsumerFairSpec): every trigger() call
\* is followed by the return of a guard, unless the cooldown window moves
\* past the end of the clock.
C13_NoTriggerLost ==
    (ev.op \in {"trigger", "retrigger"})
        ~> (ev.op = "issue" \/ PastHorizon)

\* What the one consumer does get (ConsumerFairSpec): a trigger() call made
\* while it holds no unfinalized guard is followed by the return of a guard,
\* unless the cooldown window moves past the end of the clock.
TriggerServedWithoutGuard ==
    (ev.op \in {"trigger", "retrigger"} /\ Outstanding = {})
        ~> (ev.op = "issue" \/ PastHorizon)

\* a trigger() call found the batch pending while the consumer held the
\* guard of that batch
TriggerWhileGuardHeld ==
    ev.op = "retrigger" /\ Outstanding # {} /\ ~PastHorizon


\* C14: the locked block of a trigger() call leaves has_run alone; it sets
\* last_run to the current time in Trailing mode and leaves it alone in
\* Leading mode; it leaves triggered true and does not touch the notifier;
\* when triggered was already true the call ends there, with no wake owed;
\* when triggered was false the call owes one notify_one.  That notify_one
\* is a later step of the same call, made from outside the locked block: it
\* sends exactly one wake and changes none of triggered, has_run, last_run.
C14_TriggerFrame ==
    [][/\ ev'.op \in {"trigger", "retrigger"}
            => /\ has_run' = has_run
               /\ last_run' = (IF mode = "Trailing" THEN now ELSE last_run)
               /\ triggered'
               /\ lock = 0 /\ lock' = 0
               /\ UNCHANGED notif /\ wake' = "none"
               /\ triggered => UNCHANGED tpc
               /\ ~triggered
                    => \E p \in ProducerIds :
                          /\ tpc[p] = "idle"
                          /\ tpc' = [tpc EXCEPT ![p] = "notify"]
       /\ ev'.op = "notify"
            => /\ UNCHANGED state
               /\ OneWake /\ wake' = "unlocked"
               /\ \E p \in ProducerIds :
                     /\ tpc[p] = "notify"
                     /\ tpc' = [tpc EXCEPT ![p] = "idle"]]_vars

\* the notify_one of a trigger() reached a parked caller only after the
\* guard of that trigger's cycle had been issued and finalized: the caller
\* is woken with triggered false
C14_Witness ==
    /\ ev.op = "notify" /\ wake = "unlocked" /\ ~triggered /\ cycleFin = 1
    /\ \E c \in CallIds : pc[c] = "parked" /\ notified[c]

\* the locked block of a trigger() has set the flag and its notify_one has
\* not been made yet: no permit is stored and nobody is registered
TriggerBeforeNotify ==
    /\ ev.op = "trigger" /\ triggered /\ ~permit /\ waiters = <<>>
    /\ \E p \in ProducerIds : tpc[p] = "notify"


\* C15 (checked under FinalizeSpec): a finalize call made while triggered is
\* false changes neither triggered, has_run, last_run nor the notifier; one
\* made while triggered is true sets has_run, sets triggered to its
\* argument, sets last_run to the current time and sends exactly one wake.
C15_FinalizeFrame ==
    [][ev'.op \in {"done", "drop", "finalizeTrue", "finalizeFalse"}
         => IF triggered
            THEN /\ has_run'
                 /\ triggered' = (ev'.op = "finalizeTrue")
                 /\ last_run' = now
                 /\ OneWake
            ELSE UNCHANGED <<state, notif>>]_vars

\* finalize(true) acted in Leading mode, later than construction, and woke
\* a parked caller
C15_Witness ==
    /\ ev.op = "finalizeTrue" /\ mode = "Leading" /\ now > 0
    /\ triggered /\ has_run /\ last_run = now /\ lastFinal = now
    /\ \E c \in CallIds : pc[c] = "parked" /\ notified[c]

\* finalize called while triggered is false, after time has passed since
\* last_run was set
C15_StaleWitness ==
    /\ ev.op = "finalizeFalse" /\ ~triggered /\ last_run < now /\ wake = "none"


\* C16 (as claimed, checked under CodeSpec): no guard is returned before the
\* first trigger(), and is_triggered() reports true for as long as a
\* returned guard is neither acknowledged nor dropped.
C16_FlagHeldWhileGuard ==
    /\ ev.op = "issue" => lastTrig # NoTime
    /\ \A c \in Outstanding : is_triggered

\* the drop of one guard has turned is_triggered() false while another
\* caller's guard is still held
FlagClearedUnderGuard ==
    /\ ev.op = "drop" /\ ~is_triggered
    /\ \E c \in Outstanding : c # ev.c


\* C17: has_run never goes from true to false; in Trailing mode it is true
\* in every state; in Leading mode it is false exactly until the first
\* finalize that acts.
C17_HasRunMonotone ==
    /\ [][has_run => has_run']_vars
    /\ [](mode = "Trailing" => has_run)
    /\ [](mode = "Leading" => (has_run <=> lastFinal # NoTime))

\* a Leading controller with a batch pending some time after its first
\* finalize acted
C17_Witness ==
    mode = "Leading" /\ has_run /\ triggered /\ lastFinal # NoTime /\ lastFinal < now


\* C18: no ready() call that is about to park, parked or sleeping holds the
\* state lock, and the lock is free whenever some call is suspended.
C18_NoLockAcrossAwait ==
    /\ \A c \in CallIds :
         pc[c] \in {"toPark", "parked", "sleeping"} => lock # c
    /\ (\E c \in CallIds : pc[c] \in {"toPark", "parked", "sleeping"})
          => lock = 0

\* a finalize took the lock and acted while another caller was sleeping out
\* the cooldown
C18_Witness ==
    /\ ev.op = "drop" /\ lastFinal = now /\ wake = "locked" /\ lock = 0
    /\ \E c \in CallIds : pc[c] = "sleeping"

====
